---- MODULE Spec2Model ----
(***************************************************************************)
(* Model of the margin calculator page component `Home` (src/app/page.tsx; *)
(* src/unnamed/part_000 is a restyled copy with the same logic, lines      *)
(* 1-105 identical).                                                       *)
(*                                                                         *)
(* A state of the model is one committed render of the component: the      *)
(* values of its useState cells, plus the promises in flight (the catalog  *)
(* fetch and the validation fetches) and the dependency arrays React keeps *)
(* for the two reactive effects.  Event handlers and promise callbacks are *)
(* actions; the pass of the passive effects that follows a commit is the   *)
(* action RunEffects.  A committed render takes events whether or not its  *)
(* effects have run: a handler reads the cells of that render, and the     *)
(* pass that is still due runs, on the same cells, before the component    *)
(* renders again.                                                          *)
(*                                                                         *)
(* Units.  Numbers that are fractional in the program are integers here:   *)
(*   orderSize         in hundredths of a contract (the input's step 0.01) *)
(*   contract_value    in thousandths of the underlying                    *)
(*   calculatedMargin, margin_client, margin_required   in cents           *)
(* The arithmetic of the estimate is IEEE 754 double arithmetic.           *)
(***************************************************************************)
EXTENDS Integers, Sequences, FiniteSets, TLC

\* -------------------------------------------------------------------------
\* Bounds
\* -------------------------------------------------------------------------

\* handleSubmit is invoked at most this many times in a behaviour.
MaxSubmits == 2

\* The user makes at most this many edits (asset, side, size, leverage) in a
\* behaviour.
MaxEdits == 4

\* -------------------------------------------------------------------------
\* Values
\* -------------------------------------------------------------------------

\* JavaScript null (selectedAsset, validationResult, error, a JSON null body).
null == [null |-> TRUE]

\* Two catalog entries.  BTC is the asset of the spec's scenario
\* (60000, 0.01, [5,10,20]); ETH is the asset of its worked estimate
\* (50000, 0.001, leverage 20).  50 is allowed for ETH only and 5, 10 for
\* BTC only, so the leverage fallback happens in both directions.
BTC == [symbol |-> "BTC", mark_price |-> 60000, contract_value |-> 10,
        allowed_leverage |-> <<5, 10, 20>>]

ETH == [symbol |-> "ETH", mark_price |-> 50000, contract_value |-> 1,
        allowed_leverage |-> <<20, 50>>]

\* Values the order-size input can deliver after `parseFloat(..) || 0`:
\* 0 (also what an empty or unparseable input gives) and 2 contracts.
OrderSizes == {0, 200}

Sides == {"long", "short"}

\* Array.prototype.includes on a number array.
Includes(arr, v) == \E i \in 1..Len(arr) : arr[i] = v

\* -------------------------------------------------------------------------
\* Responses of the two collaborators
\* -------------------------------------------------------------------------

\* fetch() rejected: no HTTP response at all.
Rejected == [kind |-> "reject"]

\* An HTTP response whose body is not JSON: res.json() rejects.
Unparseable(ok) == [kind |-> "unparseable", ok |-> ok]

\* An HTTP response with a JSON body.
Json(ok, data) == [kind |-> "json", ok |-> ok, data |-> data]

\* GET /config/assets.  The asset records of a non-empty list are well formed
\* (each has a non-empty allowed_leverage), as the Asset interface declares.
ConfigBodies ==
    { [assets |-> <<BTC, ETH>>],      \* a usable catalog
      [assets |-> <<>>],              \* zero-length asset list
      [other |-> TRUE],               \* an object without `assets`
      null }                          \* JSON null

ConfigResponses ==
    {Rejected, Unparseable(TRUE), Unparseable(FALSE)}
      \cup {Json(ok, d) : ok \in BOOLEAN, d \in ConfigBodies}

\* POST /margin/validate
ServerOk == [status |-> "ok", margin_required |-> 24000]

ServerError == [status |-> "error", message |-> "Insufficient margin",
                margin_required |-> 24000]

NoMarginRequired == [status |-> "ok"]

ValidationBodies == {ServerOk, ServerError, NoMarginRequired, null}

ValidationResponses ==
    {Rejected, Unparseable(TRUE)}
      \cup {Json(TRUE, d) : d \in ValidationBodies}
      \cup {Json(FALSE, ServerError)}

\* The ValidationResponse interface: status and margin_required are required.
WellFormed(data) ==
    /\ data # null
    /\ {"status", "margin_required"} \subseteq DOMAIN data
    /\ data.status \in {"ok", "error"}

\* The outcome the catch block of handleSubmit fabricates.
NetworkError == [status |-> "error",
                 message |-> "Network error connecting to backend",
                 margin_required |-> 0]

\* The string the catch block of the catalog load passes to setError (wrapped
\* in a record so that it can be compared with null).
LoadErrorMessage ==
    [text |-> "Could not load asset configuration. Is the backend running?"]

\* -------------------------------------------------------------------------
\* State
\* -------------------------------------------------------------------------

VARIABLES
    assets,            \* useState<Asset[]>([])
    selectedAsset,     \* useState<Asset | null>(null)
    orderSize,         \* useState<number>(0)
    side,              \* useState<"long" | "short">("long")
    leverage,          \* useState<number>(0)
    calculatedMargin,  \* useState<number>(0)
    validationResult,  \* useState<ValidationResponse | null>(null)
    error,             \* useState<string | null>(null)
    loading,           \* useState<boolean>(true)
    configFetch,       \* the catalog fetch: "idle" (not mounted), "pending", "done"
    effectDeps,        \* dependency values of the last render whose effects ran
    requests,          \* validation fetches in flight: {[id, body]}
    issued,            \* number of validation requests issued so far
    invoked,           \* number of invocations of handleSubmit so far
    edits              \* number of edits the user has made so far

vars == <<assets, selectedAsset, orderSize, side, leverage, calculatedMargin,
          validationResult, error, loading, configFetch, effectDeps,
          requests, issued, invoked, edits>>

\* -------------------------------------------------------------------------
\* Pure parts of the effects
\* -------------------------------------------------------------------------

\* IEEE 754 binary64 arithmetic on the magnitudes the margin effect computes
\* with.  A finite double is m * 2^e; m is a natural number held as a
\* little-endian sequence of limbs (digits in base 2^14), so that no
\* intermediate value leaves the 32-bit integers.  Every operation computes
\* the exact result and rounds it once to 53 bits, ties to even.

\* Bits per limb, and the limb base 2^14.
LimbBits == 14

Base == 16384

\* Width of a double's significand.
MantissaBits == 53

\* Limbs a dividend is shifted left by before a short division: 70 bits, so
\* that a quotient by a divisor below 2^16 keeps more than 53 bits.
GuardLimbs == 5

RECURSIVE Pow2(_)
Pow2(k) == IF k = 0 THEN 1 ELSE 2 * Pow2(k - 1)

\* The limbs of a natural number.
RECURSIVE Limbs(_)
Limbs(n) == IF n = 0 THEN <<>> ELSE <<n % Base>> \o Limbs(n \div Base)

\* The natural number a sequence of limbs stands for.
RECURSIVE ToInt(_)
ToInt(a) == IF a = <<>> THEN 0 ELSE a[1] + Base * ToInt(Tail(a))

\* a without its leading zero limbs.
RECURSIVE Trim(_)
Trim(a) ==
    IF a # <<>> /\ a[Len(a)] = 0 THEN Trim(SubSeq(a, 1, Len(a) - 1)) ELSE a

\* n zero limbs.
Zeros(n) == [i \in 1..n |-> 0]

\* a + b + carry.
RECURSIVE Add(_, _, _)
Add(a, b, carry) ==
    IF a = <<>> /\ b = <<>>
    THEN Limbs(carry)
    ELSE LET x == IF a = <<>> THEN 0 ELSE a[1]
             y == IF b = <<>> THEN 0 ELSE b[1]
             t == x + y + carry
         IN  <<t % Base>> \o Add(IF a = <<>> THEN a ELSE Tail(a),
                                 IF b = <<>> THEN b ELSE Tail(b),
                                 t \div Base)

\* a * k + carry, for 0 <= k < 2^16.
RECURSIVE MulSmall(_, _, _)
MulSmall(a, k, carry) ==
    IF a = <<>>
    THEN Limbs(carry)
    ELSE LET t == a[1] * k + carry
         IN  <<t % Base>> \o MulSmall(Tail(a), k, t \div Base)

\* a * b.
RECURSIVE Mul(_, _)
Mul(a, b) ==
    IF b = <<>>
    THEN <<>>
    ELSE Add(MulSmall(a, b[1], 0), <<0>> \o Mul(a, Tail(b)), 0)

\* Quotient and remainder of a by k, for 0 < k < 2^16.
RECURSIVE DivSmall(_, _)
DivSmall(a, k) ==
    IF a = <<>>
    THEN [q |-> <<>>, r |-> 0]
    ELSE LET hi == DivSmall(Tail(a), k)
             t == hi.r * Base + a[1]
         IN  [q |-> <<t \div k>> \o hi.q, r |-> t % k]

\* Number of bits of a natural number below Base.
RECURSIVE BitLenInt(_)
BitLenInt(n) == IF n = 0 THEN 0 ELSE 1 + BitLenInt(n \div 2)

\* Number of bits of a (a without leading zero limbs).
BitLen(a) ==
    IF a = <<>> THEN 0 ELSE LimbBits * (Len(a) - 1) + BitLenInt(a[Len(a)])

\* a shifted right by s bits, and whether a one was shifted out.
ShiftRight(a, s) ==
    LET drop == s \div LimbBits
        kept == IF drop >= Len(a) THEN <<>> ELSE SubSeq(a, drop + 1, Len(a))
        d    == DivSmall(kept, Pow2(s % LimbBits))
    IN  [q |-> Trim(d.q),
         sticky |-> d.r # 0 \/ \E i \in 1..Len(a) : i <= drop /\ a[i] # 0]

\* Whether a is odd.
Odd(a) == a # <<>> /\ a[1] % 2 = 1

\* (a + fraction) * 2^e rounded to a double, the fraction being in (0, 1) when
\* sticky and 0 otherwise: round to nearest, ties to even.
RoundNearestEven(a, sticky, e) ==
    LET n == Trim(a)
        L == BitLen(n)
    IN  IF L <= MantissaBits
        THEN [m |-> n, e |-> e]
        ELSE LET sh == ShiftRight(n, L - MantissaBits - 1)
                 q  == Trim(DivSmall(sh.q, 2).q)
                 up == Odd(sh.q) /\ (sticky \/ sh.sticky \/ Odd(q))
             IN  [m |-> IF up THEN Add(q, <<1>>, 0) ELSE q,
                  e |-> e + L - MantissaBits]

\* The double nearest to n / d, for naturals n and 0 < d < 2^16: what
\* parseFloat and JSON parsing make of a decimal such as 0.23 or 0.001.
FromRatio(n, d) ==
    LET t == DivSmall(Zeros(GuardLimbs) \o Limbs(n), d)
    IN  RoundNearestEven(t.q, t.r # 0, 0 - GuardLimbs * LimbBits)

\* x * y in doubles.
DoubleMul(x, y) == RoundNearestEven(Mul(x.m, y.m), FALSE, x.e + y.e)

\* x / k in doubles, k an integer with 0 < k < 2^16.
DoubleDivInt(x, k) ==
    LET t == DivSmall(Zeros(GuardLimbs) \o x.m, k)
    IN  RoundNearestEven(t.q, t.r # 0, x.e - GuardLimbs * LimbBits)

\* Math.round of the double x, or of -x when neg: the nearest integer, a half
\* going towards +infinity.
MathRound(neg, x) ==
    IF x.e >= 0
    THEN LET v == ToInt(x.m) * Pow2(x.e) IN IF neg THEN 0 - v ELSE v
    ELSE LET sh == ShiftRight(x.m, 0 - x.e - 1)
             down == (ToInt(sh.q) + 1) \div 2
         IN  IF ~neg THEN down
             ELSE IF Odd(sh.q) /\ ~sh.sticky THEN 0 - (down - 1) ELSE 0 - down

\* |v| of an integer.
Abs(v) == IF v < 0 THEN 0 - v ELSE v

\* The value the margin effect computes, in cents, for an order size given in
\* hundredths, a contract value given in thousandths and a leverage # 0:
\*   margin = (mark_price * orderSize * contract_value) / leverage
\*   Math.round(margin * 100) / 100
roundedMargin(asset, size, lev) ==
    LET orderSizeD == FromRatio(Abs(size), 100)
        contractD  == FromRatio(asset.contract_value, 1000)
        markD      == FromRatio(asset.mark_price, 1)
        margin     == DoubleDivInt(DoubleMul(DoubleMul(markD, orderSizeD), contractD),
                                   Abs(lev))
    IN  MathRound((size < 0) # (lev < 0), DoubleMul(margin, FromRatio(100, 1)))

\* roundedMargin on the inputs the specifications below use, computed once.
RoundedMargins ==
    [a \in {BTC, ETH}, s \in {0, 1, 2, 3, 5, 10, 23, 200, 1000},
     l \in {5, 10, 20, 50} |-> roundedMargin(a, s, l)]

\* roundedMargin, looked up where it has been computed.
marginCents(asset, size, lev) ==
    IF <<asset, size, lev>> \in DOMAIN RoundedMargins
    THEN RoundedMargins[asset, size, lev]
    ELSE roundedMargin(asset, size, lev)

\* estimate guarded by `selectedAsset && leverage` instead of `leverage > 0`.
estimateTruthyLeverage(asset, size, lev) ==
    IF asset # null /\ lev # 0
    THEN marginCents(asset, size, lev)
    ELSE 0

\* Body of the margin effect: the value it passes to setCalculatedMargin,
\* in cents.
estimate(asset, size, lev) ==
    IF asset # null /\ lev > 0
    THEN marginCents(asset, size, lev)
    ELSE 0

\* resolve that resets to the first allowed multiple whenever an asset is set.
resolveAlwaysFirst(asset, lev) ==
    IF asset # null THEN asset.allowed_leverage[1] ELSE lev

\* Body of the leverage effect: the leverage it leaves behind.
resolve(asset, lev) ==
    IF asset # null /\ ~Includes(asset.allowed_leverage, lev)
    THEN asset.allowed_leverage[1]
    ELSE lev

\* The dependency values of the current render.
CurrentDeps ==
    [selectedAsset |-> selectedAsset, orderSize |-> orderSize, leverage |-> leverage]

\* The component is mounted and the effects of the current render have run.
Quiescent == configFetch # "idle" /\ effectDeps = CurrentDeps

\* The render guards: neither the loading nor the error screen is returned.
MainShown == ~loading /\ error = null

\* The form (side, size, leverage, submit) is rendered and can take an event.
FormShown == MainShown /\ selectedAsset # null

\* -------------------------------------------------------------------------
\* Initial state and mount
\* -------------------------------------------------------------------------

Init ==
    /\ assets = <<>>
    /\ selectedAsset = null
    /\ orderSize = 0
    /\ side = "long"
    /\ leverage = 0
    /\ calculatedMargin = 0
    /\ validationResult = null
    /\ error = null
    /\ loading = TRUE
    /\ configFetch = "idle"
    /\ effectDeps = [selectedAsset |-> null, orderSize |-> 0, leverage |-> 0]
    /\ requests = {}
    /\ issued = 0
    /\ invoked = 0
    /\ edits = 0

\* The effects of the first render: the catalog fetch is issued; the leverage
\* effect finds no asset; the margin effect sets 0.
Mount ==
    /\ configFetch = "idle"
    /\ configFetch' = "pending"
    /\ leverage' = resolve(selectedAsset, leverage)
    /\ calculatedMargin' = estimate(selectedAsset, orderSize, leverage)
    /\ effectDeps' = CurrentDeps
    /\ UNCHANGED <<assets, selectedAsset, orderSize, side, validationResult,
                   error, loading, requests, issued, invoked, edits>>

\* -------------------------------------------------------------------------
\* Catalog load
\* -------------------------------------------------------------------------

\* `data.assets && data.assets.length > 0`
UsableCatalog(data) ==
    /\ "assets" \in DOMAIN data
    /\ Len(data.assets) > 0

\* ConfigThrows without the `if (!res.ok) throw` line.
ConfigThrowsNoOkCheck(resp) ==
    \/ resp.kind = "reject"
    \/ resp.kind = "unparseable"
    \/ resp.data = null

\* The promise chain throws: fetch rejected, !res.ok, res.json() rejected,
\* or `data.assets` read off a null body.
ConfigThrows(resp) ==
    \/ resp.kind = "reject"
    \/ ~resp.ok
    \/ resp.kind = "unparseable"
    \/ resp.data = null

\* ConfigResponse without the `setLeverage(firstAsset.allowed_leverage[0])` line.
ConfigResponseNoSeed(resp) ==
    /\ configFetch = "pending"
    /\ configFetch' = "done"
    /\ loading' = FALSE
    /\ IF ConfigThrows(resp)
       THEN /\ error' = LoadErrorMessage
            /\ UNCHANGED <<assets, selectedAsset>>
       ELSE /\ UNCHANGED error
            /\ IF UsableCatalog(resp.data)
               THEN /\ assets' = resp.data.assets
                    /\ selectedAsset' = resp.data.assets[1]
               ELSE UNCHANGED <<assets, selectedAsset>>
    /\ UNCHANGED <<leverage, orderSize, side, calculatedMargin,
                   validationResult, effectDeps, requests, issued, invoked,
                   edits>>

\* The catalog fetch settles with resp: the `.then` chain or the `.catch`.
\* The fetch is pending only in the render Mount left, whose effects have run.
ConfigResponse(resp) ==
    /\ configFetch = "pending"
    /\ configFetch' = "done"
    /\ loading' = FALSE
    /\ IF ConfigThrows(resp)
       THEN /\ error' = LoadErrorMessage
            /\ UNCHANGED <<assets, selectedAsset, leverage>>
       ELSE /\ UNCHANGED error
            /\ IF UsableCatalog(resp.data)
               THEN /\ assets' = resp.data.assets
                    /\ selectedAsset' = resp.data.assets[1]
                    /\ leverage' = resp.data.assets[1].allowed_leverage[1]
               ELSE UNCHANGED <<assets, selectedAsset, leverage>>
    /\ UNCHANGED <<orderSize, side, calculatedMargin, validationResult,
                   effectDeps, requests, issued, invoked, edits>>

\* -------------------------------------------------------------------------
\* The reactive effects
\* -------------------------------------------------------------------------

\* One pass of the passive effects after a commit.  An effect runs when one
\* of its dependencies differs from the previous pass; both read the values
\* of the render they belong to.

\* LeverageEffectDue with `selectedAsset` left out of the dependency array.
LeverageEffectDueNoAsset ==
    effectDeps.leverage # leverage

\* The dependency array of the leverage effect has changed.
LeverageEffectDue ==
    \/ effectDeps.selectedAsset # selectedAsset
    \/ effectDeps.leverage # leverage

\* MarginEffectDue with `leverage` left out of the dependency array.
MarginEffectDueNoLeverage ==
    \/ effectDeps.selectedAsset # selectedAsset
    \/ effectDeps.orderSize # orderSize

\* The dependency array of the margin effect has changed.
MarginEffectDue ==
    \/ effectDeps.selectedAsset # selectedAsset
    \/ effectDeps.orderSize # orderSize
    \/ effectDeps.leverage # leverage

\* The leverage the pass that is due leaves: what the leverage effect sets,
\* or the leverage of the render when the effect is not due.
leverageAfterPass ==
    IF LeverageEffectDue THEN resolve(selectedAsset, leverage) ELSE leverage

\* The estimate the pass that is due leaves.
marginAfterPass ==
    IF MarginEffectDue
    THEN estimate(selectedAsset, orderSize, leverage)
    ELSE calculatedMargin

\* The effects that are due run on the cells of the committed render.  When
\* none is due (Quiescent) this changes nothing.
FlushEffects ==
    /\ leverage' = leverageAfterPass
    /\ calculatedMargin' = marginAfterPass
    /\ effectDeps' = CurrentDeps

\* RunEffects with the catalog effect lacking its `[]` dependency array: every
\* pass fetches the catalog again.
RunEffectsRefetch ==
    /\ configFetch # "idle"
    /\ effectDeps # CurrentDeps
    /\ configFetch' = "pending"
    /\ FlushEffects
    /\ UNCHANGED <<assets, selectedAsset, orderSize, side, validationResult,
                   error, loading, requests, issued, invoked, edits>>

\* The pass on its own, with no event in between: the effects that are due
\* run; the catalog effect, whose dependency array is empty, does not run
\* again.
RunEffects ==
    /\ configFetch # "idle"
    /\ effectDeps # CurrentDeps
    /\ FlushEffects
    /\ UNCHANGED <<assets, selectedAsset, orderSize, side, validationResult,
                   error, loading, configFetch, requests, issued, invoked,
                   edits>>

\* -------------------------------------------------------------------------
\* Event handlers of the form
\* -------------------------------------------------------------------------

\* Each handler below sets its cell from the committed render; the pass that
\* is still due for that render (FlushEffects) runs before the next render.

\* onClick of an asset button.
SelectAsset(i) ==
    /\ edits < MaxEdits
    /\ edits' = edits + 1
    /\ MainShown
    /\ i \in 1..Len(assets)
    /\ selectedAsset' = assets[i]
    /\ FlushEffects
    /\ UNCHANGED <<assets, orderSize, side, validationResult, error, loading,
                   configFetch, requests, issued, invoked>>

\* onClick of the Long / Short buttons.
SetSide(s) ==
    /\ edits < MaxEdits
    /\ edits' = edits + 1
    /\ FormShown
    /\ side' = s
    /\ FlushEffects
    /\ UNCHANGED <<assets, selectedAsset, orderSize, validationResult, error,
                   loading, configFetch, requests, issued, invoked>>

\* SetOrderSize that also aborts the validation fetches in flight.
SetOrderSizeAborts(v) ==
    /\ edits < MaxEdits
    /\ edits' = edits + 1
    /\ FormShown
    /\ orderSize' = v
    /\ requests' = {}
    /\ FlushEffects
    /\ UNCHANGED <<assets, selectedAsset, side, validationResult, error,
                   loading, configFetch, issued, invoked>>

\* onChange of the order-size input.
SetOrderSize(v) ==
    /\ edits < MaxEdits
    /\ edits' = edits + 1
    /\ FormShown
    /\ orderSize' = v
    /\ FlushEffects
    /\ UNCHANGED <<assets, selectedAsset, side, validationResult, error,
                   loading, configFetch, requests, issued, invoked>>

\* onChange of the leverage select; its options are the selected asset's.
\* When the leverage effect of the pass that is due also calls setLeverage,
\* the later of the two calls decides the next render; which one is later
\* depends on when React ran the pass, so either value can result.
SetLeverage(i) ==
    /\ edits < MaxEdits
    /\ edits' = edits + 1
    /\ FormShown
    /\ i \in 1..Len(selectedAsset.allowed_leverage)
    /\ leverage' \in {selectedAsset.allowed_leverage[i]}
                       \cup (IF leverageAfterPass # leverage
                             THEN {leverageAfterPass} ELSE {})
    /\ calculatedMargin' = marginAfterPass
    /\ effectDeps' = CurrentDeps
    /\ UNCHANGED <<assets, selectedAsset, orderSize, side, validationResult,
                   error, loading, configFetch, requests, issued, invoked>>

\* -------------------------------------------------------------------------
\* Submission
\* -------------------------------------------------------------------------

\* The JSON body handleSubmit posts.
Payload ==
    [asset |-> selectedAsset.symbol, order_size |-> orderSize, side |-> side,
     leverage |-> leverage, margin_client |-> calculatedMargin]

\* handleSubmit without the `setValidationResult(null)` line.
handleSubmitNoClear ==
    /\ invoked < MaxSubmits
    /\ invoked' = invoked + 1
    /\ IF selectedAsset = null
       THEN UNCHANGED <<validationResult, requests, issued, leverage,
                        calculatedMargin, effectDeps>>
       ELSE /\ UNCHANGED validationResult
            /\ issued' = issued + 1
            /\ requests' = requests \cup {[id |-> issued + 1, body |-> Payload]}
            /\ FlushEffects
    /\ UNCHANGED <<assets, selectedAsset, orderSize, side, error, loading,
                   configFetch, edits>>

\* handleSubmit without the `if (!selectedAsset) return` line: with no asset
\* `selectedAsset.symbol` throws inside the try block and the catch block
\* stores the network-error outcome.
handleSubmitNoGuard ==
    /\ invoked < MaxSubmits
    /\ invoked' = invoked + 1
    /\ IF selectedAsset = null
       THEN /\ validationResult' = NetworkError
            /\ UNCHANGED <<requests, issued, leverage, calculatedMargin,
                           effectDeps>>
       ELSE /\ validationResult' = null
            /\ issued' = issued + 1
            /\ requests' = requests \cup {[id |-> issued + 1, body |-> Payload]}
            /\ FlushEffects
    /\ UNCHANGED <<assets, selectedAsset, orderSize, side, error, loading,
                   configFetch, edits>>

\* handleSubmit up to its first await.  It reads the cells of the committed
\* render: the payload carries that render's leverage and calculatedMargin,
\* whether or not its effects have run.  With no asset it returns before it
\* sets any state.
handleSubmit ==
    /\ invoked < MaxSubmits
    /\ invoked' = invoked + 1
    /\ IF selectedAsset = null
       THEN UNCHANGED <<validationResult, requests, issued, leverage,
                        calculatedMargin, effectDeps>>
       ELSE /\ validationResult' = null
            /\ issued' = issued + 1
            /\ requests' = requests \cup {[id |-> issued + 1, body |-> Payload]}
            /\ FlushEffects
    /\ UNCHANGED <<assets, selectedAsset, orderSize, side, error, loading,
                   configFetch, edits>>

\* onClick of the submit button, `disabled={orderSize <= 0}`.
ClickSubmit ==
    /\ FormShown
    /\ orderSize > 0
    /\ handleSubmit

\* handleSubmit of the current render called without going through the button
\* (whatever the button's disabled state, whichever screen is shown).
CallSubmit ==
    handleSubmit

\* Outcome with a `if (!response.ok) throw` added before the body is parsed.
OutcomeOkChecked(resp) ==
    IF resp.kind = "json" /\ resp.ok THEN resp.data ELSE NetworkError

\* What the rest of handleSubmit stores for a response.
Outcome(resp) ==
    IF resp.kind = "json" THEN resp.data ELSE NetworkError

\* ValidationResponse that posts the same body again when the fetch failed.
ValidationResponseRetry(r, resp) ==
    /\ r \in requests
    /\ validationResult' = Outcome(resp)
    /\ IF resp.kind = "json"
       THEN requests' = requests \ {r} /\ UNCHANGED issued
       ELSE /\ requests' = (requests \ {r}) \cup {[id |-> issued + 1, body |-> r.body]}
            /\ issued' = issued + 1
    /\ FlushEffects
    /\ UNCHANGED <<assets, selectedAsset, orderSize, side, error, loading,
                   configFetch, invoked, edits>>

\* handleSubmit after its awaits: the fetch of request r settles with resp.
ValidationResponse(r, resp) ==
    /\ r \in requests
    /\ requests' = requests \ {r}
    /\ validationResult' = Outcome(resp)
    /\ FlushEffects
    /\ UNCHANGED <<assets, selectedAsset, orderSize, side, error, loading,
                   configFetch, issued, invoked, edits>>

\* -------------------------------------------------------------------------
\* Specifications
\* -------------------------------------------------------------------------

UserInput ==
    \/ \E i \in 1..2 : SelectAsset(i)
    \/ \E s \in Sides : SetSide(s)
    \/ \E v \in OrderSizes : SetOrderSize(v)
    \/ \E i \in 1..3 : SetLeverage(i)

Network ==
    \/ \E resp \in ConfigResponses : ConfigResponse(resp)
    \/ \E r \in requests, resp \in ValidationResponses : ValidationResponse(r, resp)

\* The page as a user drives it.
Next ==
    \/ Mount
    \/ RunEffects
    \/ UserInput
    \/ ClickSubmit
    \/ Network

Spec == Init /\ [][Next]_vars

\* The two effects on their own: the component mounts with arbitrary values
\* in its cells, the effects of the first render run (Mount), and the effects
\* run again for the render a leverage correction causes (RunEffects).  The
\* sizes include 0.01 and 0.23, whose estimates for ETH at 20x are the exact
\* halves 0.025 and 0.575.
EffectSizes == {0, 1, 2, 3, 5, 10, 23, 200, 1000}

EffectLeverages == {-5, 0, 5, 10, 20, 50}

InitEffects ==
    /\ assets = <<>>
    /\ selectedAsset \in {null, BTC, ETH}
    /\ orderSize \in EffectSizes
    /\ side = "long"
    /\ leverage \in EffectLeverages
    /\ calculatedMargin \in {0, 12000}
    /\ validationResult = null
    /\ error = null
    /\ loading = TRUE
    /\ configFetch = "idle"
    /\ effectDeps = [selectedAsset |-> null, orderSize |-> 0, leverage |-> 0]
    /\ requests = {}
    /\ issued = 0
    /\ invoked = 0
    /\ edits = 0

NextEffects ==
    \/ Mount
    \/ RunEffects

SpecEffects == InitEffects /\ [][NextEffects]_vars

\* The page with handleSubmit also called directly, whatever the button's state.
NextCall ==
    \/ Next
    \/ CallSubmit

SpecCall == Init /\ [][NextCall]_vars

\* -------------------------------------------------------------------------
\* Properties
\* -------------------------------------------------------------------------

\* The catalog asset with a given symbol.
CatalogAsset(sym) ==
    CHOOSE a \in {assets[i] : i \in 1..Len(assets)} : a.symbol = sym

\* C1: while at least one validation request issued by handleSubmit has not
\* resolved, validationResult is null.
C1_OutcomeAbsentInFlight ==
    requests # {} => validationResult = null

\* C2: at most one validation request is outstanding at any time.
C2_AtMostOneOutstanding ==
    Cardinality(requests) <= 1

\* C3: whenever an asset is selected, the current leverage is one of that
\* asset's allowed_leverage, in every render, the one right after the
\* selected asset changed included.
C3_LeverageAllowed ==
    selectedAsset # null => Includes(selectedAsset.allowed_leverage, leverage)

\* C4: in every render calculatedMargin is the estimate of the current
\* asset, size and leverage.
C4_EstimateNeverStale ==
    calculatedMargin = estimate(selectedAsset, orderSize, leverage)

\* C5: every validation request carries margin_client equal to the estimate
\* of the catalog asset, order_size and leverage of the same payload.
C5_PayloadMarginConsistent ==
    \A r \in requests :
        r.body.margin_client =
            estimate(CatalogAsset(r.body.asset), r.body.order_size, r.body.leverage)

\* C6: handleSubmit issues no request when orderSize <= 0, so no request
\* ever carries an order_size <= 0.
C6_NoRequestForNonPositiveSize ==
    \A r \in requests : r.body.order_size > 0

\* C7: once the catalog load has completed without a usable asset list
\* (missing or zero-length), the session is in LoadError.
C7_EmptyCatalogIsLoadError ==
    (configFetch = "done" /\ Len(assets) = 0) => error # null

\* C8: a catalog load that fails in transport or with a non-2xx response
\* ends in LoadError, and in LoadError no step changes error, selects an
\* asset or issues a validation request.
C8_LoadErrorTerminal ==
    [][ /\ \A resp \in ConfigResponses :
              (ConfigResponse(resp) /\ (resp.kind = "reject" \/ ~resp.ok))
                  => (error' = LoadErrorMessage /\ ~loading')
        /\ error # null =>
              /\ error' = error
              /\ selectedAsset' = selectedAsset
              /\ issued' = issued
              /\ requests' \subseteq requests ]_vars

\* C8 witness: the load has failed and the error screen is what renders.
C8_Witness ==
    configFetch = "done" /\ error = LoadErrorMessage /\ ~loading

\* C9: a response lacking a required field is never stored as the
\* ValidationOutcome: a stored outcome is always well-formed.
C9_StoredOutcomeWellFormed ==
    validationResult # null => WellFormed(validationResult)

\* C10: a well-formed response body is stored as it is, whatever its status
\* and whatever the HTTP status it came with.
C10_WellFormedStoredVerbatim ==
    [][ \A r \in requests, resp \in ValidationResponses :
            (ValidationResponse(r, resp) /\ resp.kind = "json" /\ WellFormed(resp.data))
                => validationResult' = resp.data ]_vars

\* C10 witness: a server-reported error is the stored outcome.
C10_Witness ==
    validationResult = ServerError /\ issued > 0

\* C11: every step that issues a validation request leaves validationResult
\* null, whatever it was before (an ok outcome, an error outcome or null).
C11_SubmitClearsOutcome ==
    [][ issued' # issued => validationResult' = null ]_vars

\* C11 witness: the first request has resolved and the second submit has
\* just been made: its request is in flight and the outcome is absent.
C11_Witness ==
    /\ issued = 2
    /\ requests # {}
    /\ \A r \in requests : r.id = 2
    /\ validationResult = null

\* C12: a request in flight keeps its id and payload through every step,
\* edits of asset, side, size and leverage included, until a response to it
\* is delivered; no other step removes it.
C12_PayloadFixedInFlight ==
    [][ \A r \in requests :
            \/ r \in requests'
            \/ \E resp \in ValidationResponses : ValidationResponse(r, resp) ]_vars

\* C12 witness: the effects have run and a request in flight carries a
\* payload that differs from the current draft in asset, size and leverage.
C12_Witness ==
    /\ Quiescent /\ FormShown
    /\ \E r \in requests :
          /\ r.body.asset # selectedAsset.symbol
          /\ r.body.order_size # orderSize
          /\ r.body.leverage # leverage
          /\ r.body.side # side

\* C13: every invocation of handleSubmit from the submit button issues
\* exactly one request, and no other step (a response, a failure, an edit,
\* an effect) issues one.
C13_OneRequestPerSubmit ==
    [][ /\ invoked' \in {invoked, invoked + 1}
        /\ invoked' = invoked + 1 => issued' = issued + 1
        /\ invoked' = invoked => issued' = issued ]_vars

\* C13 witness: two submissions, both resolved, the last by a transport
\* failure, and two requests issued in all.
C13_Witness ==
    /\ invoked = 2
    /\ issued = 2
    /\ requests = {}
    /\ validationResult = NetworkError

\* The effects have run at least once; effectDeps then holds the asset, size
\* and leverage the last pass read.
EffectsRan == configFetch # "idle"

\* C14: for an asset A and a leverage L, the leverage the correction effect
\* leaves is L when L is in A.allowed_leverage and A.allowed_leverage[0]
\* otherwise.
C14_ResolveFunction ==
    (EffectsRan /\ effectDeps.selectedAsset # null) =>
        LET A == effectDeps.selectedAsset
            L == effectDeps.leverage
            allowed == {A.allowed_leverage[i] : i \in DOMAIN A.allowed_leverage}
        IN  leverage = IF L \in allowed THEN L ELSE A.allowed_leverage[1]

\* C14 witness: the fallback; the pass read ETH and leverage 5, which ETH
\* does not allow, and left 20, the first element of [20, 50].
C14_Witness ==
    /\ EffectsRan
    /\ effectDeps.selectedAsset = ETH
    /\ effectDeps.leverage = 5
    /\ leverage = 20

\* C15: for a set asset, size >= 0 and leverage > 0 the estimate, in cents,
\* is the integer c with c - 1/2 <= 100 * (mark_price * size * contract_value)
\* / leverage < c + 1/2 (two decimals, halves up); 50000, 0.001, size 10,
\* leverage 20 gives 25.00.
C15_EstimateRounded ==
    (/\ EffectsRan
     /\ effectDeps.selectedAsset # null
     /\ effectDeps.orderSize >= 0
     /\ effectDeps.leverage > 0) =>
        LET A == effectDeps.selectedAsset
            N == A.mark_price * effectDeps.orderSize * A.contract_value
            D == 1000 * effectDeps.leverage
            c == calculatedMargin
        IN  /\ (2 * c - 1) * D <= 2 * N
            /\ 2 * N < (2 * c + 1) * D
            /\ (A = ETH /\ effectDeps.orderSize = 1000 /\ effectDeps.leverage = 20)
                   => c = 2500

\* C16: the estimate is 0 when the size is 0, when the leverage is <= 0 and
\* when no asset is selected, whatever the other inputs are.
C16_DegenerateEstimateZero ==
    (/\ EffectsRan
     /\ \/ effectDeps.selectedAsset = null
        \/ effectDeps.leverage <= 0
        \/ effectDeps.orderSize = 0) => calculatedMargin = 0

\* C16 witness: an asset and a size, leverage 0, and a stale 120.00 in the
\* cell before the pass: the pass set 0.
C16_Witness ==
    /\ EffectsRan
    /\ effectDeps.selectedAsset = BTC
    /\ effectDeps.orderSize = 200
    /\ effectDeps.leverage = 0
    /\ calculatedMargin = 0

\* C17: a catalog load that succeeds with a non-empty list leaves the main
\* screen shown with the first asset selected, leverage at that asset's
\* allowed_leverage[0], size 0 and estimate 0.
C17_LoadSelectsFirstAsset ==
    [][ \A resp \in ConfigResponses :
            (/\ ConfigResponse(resp)
             /\ ~ConfigThrows(resp)
             /\ UsableCatalog(resp.data)) =>
                /\ ~loading' /\ error' = null
                /\ selectedAsset' = resp.data.assets[1]
                /\ leverage' = resp.data.assets[1].allowed_leverage[1]
                /\ orderSize' = 0
                /\ calculatedMargin' = 0 ]_vars

\* C17 witness: the scenario's load: BTC selected at leverage 5, size and
\* estimate 0, nothing submitted yet.
C17_Witness ==
    /\ configFetch = "done" /\ MainShown
    /\ assets = <<BTC, ETH>>
    /\ selectedAsset = BTC
    /\ leverage = 5
    /\ orderSize = 0
    /\ calculatedMargin = 0
    /\ side = "long"
    /\ invoked = 0

\* C18: no failure leaves the outcome absent for good: once a submission
\* has been made and every request has been answered (by a response or a
\* transport failure), validationResult is not null.
C18_ResolvedHasOutcome ==
    (issued > 0 /\ requests = {}) => validationResult # null

\* What holds of a render whose effects have run.
Settled ==
    /\ selectedAsset # null => Includes(selectedAsset.allowed_leverage, leverage)
    /\ calculatedMargin = estimate(selectedAsset, orderSize, leverage)

\* C19: the effects converge.  A render whose effects have run has an allowed
\* leverage and a fresh estimate; an effects pass leaves the leverage at
\* resolve(asset, leverage before the pass) and either ends with nothing left
\* to run or has corrected the leverage to a value that needs no further
\* correction, so that the one pass after it only recomputes the estimate.
C19_EffectsConverge ==
    /\ [](Quiescent => Settled)
    /\ [][ RunEffects =>
             /\ leverage' = resolve(selectedAsset, leverage)
             /\ IF leverage' = leverage
                THEN Quiescent'
                ELSE resolve(selectedAsset', leverage') = leverage' ]_vars

\* C19 witness: ETH was selected at leverage 5 with size 2; the first pass has
\* corrected the leverage to 20 and computed the estimate with 5 (20.00); the
\* second pass is due.
C19_Witness ==
    /\ ~Quiescent
    /\ selectedAsset = ETH
    /\ effectDeps = [selectedAsset |-> ETH, orderSize |-> 200, leverage |-> 5]
    /\ leverage = 20
    /\ calculatedMargin = 2000

\* C20: the catalog fetch goes idle -> pending -> done and never back;
\* loading is true exactly until the fetch is done and changes only in that
\* one step; once the fetch is done no step changes assets or error.
C20_LoadedOnce ==
    /\ [](loading <=> configFetch # "done")
    /\ [][ /\ configFetch' # configFetch =>
                <<configFetch, configFetch'>> \in
                    {<<"idle", "pending">>, <<"pending", "done">>}
           /\ loading' # loading => (loading /\ configFetch = "pending")
           /\ configFetch = "done" =>
                (assets' = assets /\ error' = error /\ ~loading') ]_vars

\* C20 witness: long after the load: another asset selected, two submissions
\* made and answered, and the page is still loaded.
C20_Witness ==
    /\ configFetch = "done" /\ ~loading
    /\ selectedAsset = ETH
    /\ issued = 2
    /\ requests = {}
    /\ validationResult = ServerOk

\* C21: validationResult changes only through submission: a step that makes
\* it null is a submit that issues a request, and a step that gives it a
\* value is the arrival of a response or failure; asset, side, size and
\* leverage edits and the effects leave it as it is.
C21_OutcomeOnlyBySubmission ==
    [][ validationResult' # validationResult =>
            IF validationResult' = null
            THEN issued' = issued + 1
            ELSE \E r \in requests, resp \in ValidationResponses :
                     ValidationResponse(r, resp) ]_vars

\* C22: handleSubmit invoked with no asset selected issues no request and
\* leaves validationResult and the requests in flight as they are.
C22_SubmitWithoutAssetNoOp ==
    [][ (invoked' = invoked + 1 /\ selectedAsset = null) =>
            /\ issued' = issued
            /\ requests' = requests
            /\ validationResult' = validationResult ]_vars

\* C22 witness: the catalog came back empty, no asset is selected, and
\* handleSubmit has been invoked: nothing was issued.
C22_Witness ==
    /\ configFetch = "done"
    /\ selectedAsset = null
    /\ invoked > 0
    /\ issued = 0
    /\ requests = {}
    /\ validationResult = null

\* C23: a response to a submission that is no longer the most recent one
\* (a later submit has been made since) does not change validationResult.
C23_StaleResponseIgnored ==
    [][ \A r \in requests, resp \in ValidationResponses :
            (ValidationResponse(r, resp) /\ r.id < issued)
                => validationResult' = validationResult ]_vars

====
